---- MODULE Spec2Model ----
(***************************************************************************)
(* Model of the hcsExec lifecycle of containerd-shim-runhcs-v1             *)
(* (src/cmd/containerd-shim-runhcs-v1/diag.go): one exec, its state lock   *)
(* `sl`, the callers of its public methods, the two observer goroutines    *)
(* (waitForContainerExit, waitForExit) and the container and guest process *)
(* they observe.                                                           *)
(***************************************************************************)
EXTENDS Integers, Sequences, FiniteSets, TLC

\* ---------------------------------------------------------------- bounds
MaxCalls == 2

\* runs of `test -d` in the retry loop of CreateScratch
MaxTestD == 2

\* every call runs on a goroutine of its own: call k is caller k
Workers == 1..MaxCalls

\* ------------------------------------------------------ program constants
\* exitStatus of an exec that has not exited (newHcsExec)
NotExitedStatus == 255
\* status passed to exitFromCreatedL by Start, Kill and waitForContainerExit
FailStatus == 1
\* the instant time.Now() gives on entry to Exited; 0 is the zero time
ExitTime == 1
\* width of exitStatus (uint32)
StatusBits == 32

\* the pid the platform gives the guest process; no step depends on its
\* value, only on its being positive
Pids == {42}
\* values a guest process may exit with, and statuses ForceExit is given
ExitCodes == {0, 255}
ForceStatuses == {1, 255}
\* signals a caller may pass to Kill: CtrlC (0), SIGKILL (9), SIGSTOP (19)
\* and a number that is no signal at all
Signals == {0, 9, 19, 100}

Pow2(n) == 2 ^ n
\* uint32(status): conversion of an int to the 32 bit exitStatus; it keeps a
\* status that is not negative and wraps a negative one around
ToUint32(x) ==
    IF x >= 0 THEN x ELSE (x + Pow2(StatusBits - 1)) + Pow2(StatusBits - 1)

NoLock == 0
CObs == MaxCalls + 1
EObs == MaxCalls + 2

VARIABLES
    isInit,          \* he.id == he.tid
    isWCOW,          \* he.isWCOW
    terminal,        \* he.io.Terminal()
    supported,       \* signal capability probe
    sl,              \* holder of he.sl, NoLock when free
    state,           \* he.state
    pid,             \* he.pid
    exitStatus,      \* he.exitStatus
    exitedAt,        \* he.exitedAt, 0 is the zero time
    p,               \* he.p # nil
    processDone,     \* he.processDone is closed
    processDoneOnce, \* he.processDoneOnce has run
    exited,          \* he.exited is closed
    exitedOnce,      \* he.exitedOnce has run
    ioCloses,        \* number of calls of he.io.Close()
    stdinCloses,     \* number of calls of he.io.CloseStdin()
    events,          \* what he.events published, in order
    exitedWrites,    \* number of assignments he.state = shimExecStateExited
    exitedBy,        \* who made that assignment: the method or observer
    cState,          \* the container he.c
    cTerminates,     \* number of calls of he.c.Terminate()
    cCloses,         \* number of calls of he.c.Close()
    cStarts,         \* number of calls of he.c.Start() that returned nil
    cexit,           \* cexit of waitForContainerExit is closed
    procState,       \* the guest process he.p.Process
    procCode,        \* its exit code
    procKills,       \* number of calls of he.p.Process.Kill()
    procSignals,     \* number of calls of he.p.Process.Signal()
    resizes,         \* number of calls of he.p.Process.ResizeConsole()
    pcC,             \* position of waitForContainerExit
    pcCW,            \* position of the goroutine in he.c.Wait()
    pcE,             \* position of waitForExit
    code,            \* local `code` of waitForExit
    pc,              \* position of each caller
    op,              \* the call each caller is in
    ret,             \* the value the call in progress is going to return
    returned,        \* the call that returned last
    calls,           \* number of calls made so far
    cancelled,       \* callers whose ctx was cancelled during Wait
    swPc,            \* position of syscallWatcher
    ctxErr,          \* ctx.Err() of the ctx syscallWatcher made
    wfPc,            \* position of watchFunc
    warnings,        \* what syscallWatcher and watchFunc logged, in order
    lambdaResult,    \* what syscallLambda stored for its caller
    inTime,          \* syscallLambda returned while ctx.Err() was nil
    hPc,             \* position of the RPC handler of the service
    hKind,           \* the handler: "State" or "Kill"
    hResp,           \* its named result resp
    hErr,            \* its named result err
    hPanic,          \* the handler's goroutine is panicking
    hPanicked,       \* a panic was raised in the handler
    csPc,            \* position of CreateScratch
    useCache,        \* cacheFile != "" && sizeGB == DefaultScratchSizeGB
    removeSCSI,      \* the flag of the deferred RemoveSCSI
    attached,        \* AddSCSI succeeded
    removeCalls,     \* calls of lcowUVM.RemoveSCSI
    testdRuns,       \* runs of `test -d` in the retry loop
    csResult         \* the return path CreateScratch took

config == <<isInit, isWCOW, terminal, supported>>
fields == <<state, pid, exitStatus, exitedAt, p>>
latches == <<processDone, processDoneOnce, exited, exitedOnce>>
iovars == <<ioCloses, stdinCloses>>
exitlog == <<exitedWrites, exitedBy>>
cvars == <<cState, cTerminates, cCloses, cStarts>>
procvars == <<procState, procCode, procKills, procSignals, resizes>>
obsvars == <<pcC, pcCW, pcE, code, cexit>>
callvars == <<pc, op, ret, returned, calls, cancelled>>
watchvars == <<swPc, ctxErr, wfPc, warnings, lambdaResult, inTime>>
rpcvars == <<hPc, hKind, hResp, hErr, hPanic, hPanicked>>
scratchvars == <<csPc, useCache, removeSCSI, attached, removeCalls, testdRuns,
                 csResult>>
others == <<watchvars, rpcvars, scratchvars>>
execvars == <<config, sl, fields, latches, iovars, events, exitlog, cvars,
              procvars, obsvars, callvars>>
notwatch == <<execvars, rpcvars, scratchvars>>
notrpc == <<execvars, watchvars, scratchvars>>
notscratch == <<execvars, watchvars, rpcvars>>
vars == <<execvars, others>>

NoCall == [name |-> "none", arg |-> 0]
NoSnap == [status |-> "none", pid |-> 0, exitStatus |-> 0, exitedAt |-> 0]
NoReturn == [name |-> "none", ret |-> "none", snap |-> NoSnap]

Init ==
    /\ isInit \in BOOLEAN
    /\ isWCOW \in BOOLEAN
    /\ terminal \in BOOLEAN
    /\ supported \in BOOLEAN
    /\ sl = NoLock
    /\ state = "Created"
    /\ pid = 0
    /\ exitStatus = NotExitedStatus
    /\ exitedAt = 0
    /\ p = FALSE
    /\ processDone = FALSE
    /\ processDoneOnce = FALSE
    /\ exited = FALSE
    /\ exitedOnce = FALSE
    /\ ioCloses = 0
    /\ stdinCloses = 0
    /\ events = <<>>
    /\ exitedWrites = 0
    /\ exitedBy = "none"
    /\ cState = IF isInit THEN "created" ELSE "running"
    /\ cTerminates = 0
    /\ cCloses = 0
    /\ cStarts = 0
    /\ cexit = FALSE
    /\ procState = "none"
    /\ procCode = 0
    /\ procKills = 0
    /\ procSignals = 0
    /\ resizes = 0
    /\ pcC = "select"
    /\ pcCW = "wait"
    /\ pcE = "off"
    /\ code = 0
    /\ pc = [w \in Workers |-> "idle"]
    /\ op = [w \in Workers |-> NoCall]
    /\ ret = [w \in Workers |-> "none"]
    /\ returned = NoReturn
    /\ calls = 0
    /\ cancelled = {}
    /\ swPc = "idle"
    /\ ctxErr = "nil"
    /\ wfPc = "off"
    /\ warnings = <<>>
    /\ lambdaResult = "none"
    /\ inTime = FALSE
    /\ hPc = "idle"
    /\ hKind = "none"
    /\ hResp = "nil"
    /\ hErr = "nil"
    /\ hPanic = FALSE
    /\ hPanicked = FALSE
    /\ csPc = "idle"
    /\ useCache = FALSE
    /\ removeSCSI = FALSE
    /\ attached = FALSE
    /\ removeCalls = 0
    /\ testdRuns = 0
    /\ csResult = "none"

\* ------------------------------------------------------------- helpers
\* Status(): the snapshot of the exec, taken under he.sl
StatusOf ==
    [status |-> CASE state = "Created" -> "StatusCreated"
                  [] state = "Running" -> "StatusRunning"
                  [] state = "Exited" -> "StatusStopped",
     pid |-> pid, exitStatus |-> exitStatus, exitedAt |-> exitedAt]

\* a caller's method returns r (and, for Wait and Status, the snapshot)
Return(w, name, r, snap) ==
    /\ pc' = [pc EXCEPT ![w] = "idle"]
    /\ op' = [op EXCEPT ![w] = NoCall]
    /\ ret' = [ret EXCEPT ![w] = "none"]
    /\ returned' = [name |-> name, ret |-> r, snap |-> snap]
    /\ UNCHANGED cancelled

\* a caller's method goes on at position l, to return r in the end
Goto(w, name, arg, l, r) ==
    /\ pc' = [pc EXCEPT ![w] = l]
    /\ op' = [op EXCEPT ![w] = [name |-> name, arg |-> arg]]
    /\ ret' = [ret EXCEPT ![w] = r]
    /\ UNCHANGED <<returned, cancelled>>

\* a caller enters a method
Enter(w) ==
    /\ pc[w] = "idle"
    /\ calls = w - 1
    /\ calls' = calls + 1

\* exitFromCreatedL up to and including its call of he.io.Close()
exitFromCreatedL(status) ==
    IF state # "Exited"
    THEN /\ processDoneOnce' = TRUE
         /\ processDone' = IF processDoneOnce THEN processDone ELSE TRUE
         /\ state' = "Exited"
         /\ exitStatus' = ToUint32(status)
         /\ exitedAt' = ExitTime
         /\ exitedWrites' = exitedWrites + 1
         /\ ioCloses' = ioCloses + 1
    ELSE UNCHANGED <<processDoneOnce, processDone, state, exitStatus,
                     exitedAt, exitedWrites, ioCloses>>

\* the caller of exitFromCreatedL that makes the exec Exited
ExitedBy(who) == exitedBy' = IF state # "Exited" THEN who ELSE exitedBy

\* where exitFromCreatedL is after that: inside he.io.Close(), or returning
AfterExitFromCreatedL == IF state # "Exited" THEN "efc_io" ELSE "efc_ret"

\* the rest of exitFromCreatedL: he.exitedOnce.Do(close(he.exited))
exitFromCreatedLEnd(l) ==
    IF l = "efc_io"
    THEN /\ exitedOnce' = TRUE
         /\ exited' = IF exitedOnce THEN exited ELSE TRUE
    ELSE UNCHANGED <<exitedOnce, exited>>

\* the start event of Start
StartEvent(q) ==
    [topic |-> IF isInit THEN "TaskStart" ELSE "TaskExecStarted",
     pid |-> q, exitStatus |-> 0, exitedAt |-> 0]

\* the exit event of waitForExit
ExitEvent ==
    [topic |-> "TaskExit", pid |-> pid, exitStatus |-> exitStatus,
     exitedAt |-> exitedAt]

\* signals.ValidateWCOW / signals.ValidateLCOW, the signal translator:
\* "request" is a structured signal request, "terminate" the hard-terminate
\* directive (nil options, nil error), "invalid" an error
SigKill == 9
SigTerm == 15
WindowsSignals == {0, 1, 2, 5, 6}
PosixSignals == 1..31
Translate(signal, wcow, sup) ==
    IF wcow
    THEN CASE signal \in {SigKill, SigTerm} -> "terminate"
           [] sup /\ signal \in WindowsSignals -> "request"
           [] OTHER -> "invalid"
    ELSE CASE sup /\ signal \in PosixSignals -> "request"
           [] ~sup /\ signal \in {SigKill, SigTerm} -> "terminate"
           [] OTHER -> "invalid"

\* ------------------------------------------------------------------ Start
\* newExecInvalidStateError: the invalid state error is a FailedPrecondition
FailedPreconditionErrors == {"InvalidState", "FailedPrecondition"}

\* StartInvalidState with the deferred exitFromCreatedL(1) registered before
\* the check of he.state
StartInvalidState_Exits(w) ==
    /\ Enter(w)
    /\ sl = NoLock
    /\ state # "Created"
    /\ sl' = w
    /\ exitFromCreatedL(FailStatus)
    /\ ExitedBy("Start")
    /\ Goto(w, "Start", 0, AfterExitFromCreatedL, "InvalidState")
    /\ UNCHANGED <<others, config, pid, p, exited, exitedOnce, stdinCloses,
                   events, cvars, procvars, obsvars>>

\* Start when the exec is not Created
StartInvalidState(w) ==
    /\ Enter(w)
    /\ sl = NoLock
    /\ state # "Created"
    /\ Return(w, "Start", "InvalidState", NoSnap)
    /\ UNCHANGED <<others, config, sl, fields, latches, iovars, events,
                   exitlog, cvars, procvars, obsvars>>

\* StartBegin without the check of he.state
StartBegin_NoCheck(w) ==
    /\ Enter(w)
    /\ sl = NoLock
    /\ sl' = w
    /\ Goto(w, "Start", 0, IF isInit THEN "start_c" ELSE "start_cmd", "none")
    /\ UNCHANGED <<others, config, fields, latches, iovars, events, exitlog,
                   cvars, procvars, obsvars>>

\* Start takes he.sl, finds the exec Created and goes into he.c.Start()
\* (init exec) or cmd.Start()
StartBegin(w) ==
    /\ Enter(w)
    /\ sl = NoLock
    /\ state = "Created"
    /\ sl' = w
    /\ Goto(w, "Start", 0, IF isInit THEN "start_c" ELSE "start_cmd", "none")
    /\ UNCHANGED <<others, config, fields, latches, iovars, events, exitlog,
                   cvars, procvars, obsvars>>

\* he.c.Start() succeeds
StartContainerOK(w) ==
    /\ pc[w] = "start_c"
    /\ cState = "created"
    /\ cState' = "running"
    /\ cStarts' = cStarts + 1
    /\ pc' = [pc EXCEPT ![w] = "start_cmd"]
    /\ UNCHANGED <<others, config, sl, fields, latches, iovars, events,
                   exitlog, cTerminates, cCloses, procvars, obsvars, op, ret,
                   returned, calls, cancelled>>

\* StartContainerFail with the deferred exitFromCreatedL(1) registered after
\* he.c.Start()
StartContainerFail_NoExit(w) ==
    /\ pc[w] = "start_c"
    /\ pc' = [pc EXCEPT ![w] = "efc_ret"]
    /\ ret' = [ret EXCEPT ![w] = "StartFailure"]
    /\ UNCHANGED <<others, config, sl, fields, latches, iovars, events,
                   exitlog, cvars, procvars, obsvars, op, returned, calls,
                   cancelled>>

\* StartContainerFail with the deferred he.c.Terminate() and he.c.Close()
\* registered before he.c.Start()
StartContainerFail_Cleanup(w) ==
    /\ pc[w] = "start_c"
    /\ cTerminates' = cTerminates + 1
    /\ cCloses' = cCloses + 1
    /\ cState' = "terminated"
    /\ exitFromCreatedL(FailStatus)
    /\ ExitedBy("Start")
    /\ pc' = [pc EXCEPT ![w] = AfterExitFromCreatedL]
    /\ ret' = [ret EXCEPT ![w] = "StartFailure"]
    /\ UNCHANGED <<others, config, sl, pid, p, exited, exitedOnce,
                   stdinCloses, events, cStarts, procvars, obsvars, op,
                   returned, calls, cancelled>>

\* he.c.Start() fails: the deferred exitFromCreatedL(1) runs
StartContainerFail(w) ==
    /\ pc[w] = "start_c"
    /\ exitFromCreatedL(FailStatus)
    /\ ExitedBy("Start")
    /\ pc' = [pc EXCEPT ![w] = AfterExitFromCreatedL]
    /\ ret' = [ret EXCEPT ![w] = "StartFailure"]
    /\ UNCHANGED <<others, config, sl, pid, p, exited, exitedOnce,
                   stdinCloses, events, cvars, procvars, obsvars, op,
                   returned, calls, cancelled>>

\* StartProcessOK that also clears he.exitStatus
StartProcessOK_ResetsStatus(w) ==
    /\ pc[w] = "start_cmd"
    /\ cState = "running"
    /\ p' = TRUE
    /\ \E q \in Pids :
          /\ pid' = q
          /\ events' = Append(events, StartEvent(q))
    /\ state' = "Running"
    /\ exitStatus' = 0
    /\ procState' = "running"
    /\ pcE' = "pwait"
    /\ sl' = NoLock
    /\ Return(w, "Start", "ok", NoSnap)
    /\ UNCHANGED <<others, config, exitedAt, latches, iovars, exitlog, cvars,
                   procCode, procKills, procSignals, resizes, pcC, pcCW, code,
                   cexit, calls>>

\* StartProcessOK that publishes no start event
StartProcessOK_NoEvent(w) ==
    /\ pc[w] = "start_cmd"
    /\ cState = "running"
    /\ p' = TRUE
    /\ \E q \in Pids : pid' = q
    /\ state' = "Running"
    /\ procState' = "running"
    /\ pcE' = "pwait"
    /\ sl' = NoLock
    /\ Return(w, "Start", "ok", NoSnap)
    /\ UNCHANGED <<others, config, exitStatus, exitedAt, latches, iovars,
                   events, exitlog, cvars, procCode, procKills, procSignals,
                   resizes, pcC, pcCW, code, cexit, calls>>

\* StartProcessOK without he.p = cmd
StartProcessOK_NoHandle(w) ==
    /\ pc[w] = "start_cmd"
    /\ cState = "running"
    /\ \E q \in Pids :
          /\ pid' = q
          /\ events' = Append(events, StartEvent(q))
    /\ state' = "Running"
    /\ procState' = "running"
    /\ pcE' = "pwait"
    /\ sl' = NoLock
    /\ Return(w, "Start", "ok", NoSnap)
    /\ UNCHANGED <<others, config, p, exitStatus, exitedAt, latches, iovars,
                   exitlog, cvars, procCode, procKills, procSignals, resizes,
                   pcC, pcCW, code, cexit, calls>>

\* cmd.Start() succeeds: pid, state, the start event, go he.waitForExit()
StartProcessOK(w) ==
    /\ pc[w] = "start_cmd"
    /\ cState = "running"
    /\ p' = TRUE
    /\ \E q \in Pids :
          /\ pid' = q
          /\ events' = Append(events, StartEvent(q))
    /\ state' = "Running"
    /\ procState' = "running"
    /\ pcE' = "pwait"
    /\ sl' = NoLock
    /\ Return(w, "Start", "ok", NoSnap)
    /\ UNCHANGED <<others, config, exitStatus, exitedAt, latches, iovars,
                   exitlog, cvars, procCode, procKills, procSignals, resizes,
                   pcC, pcCW, code, cexit, calls>>

\* StartProcessFail without the deferred he.c.Terminate() and he.c.Close()
StartProcessFail_NoCleanup(w) ==
    /\ pc[w] = "start_cmd"
    /\ exitFromCreatedL(FailStatus)
    /\ ExitedBy("Start")
    /\ pc' = [pc EXCEPT ![w] = AfterExitFromCreatedL]
    /\ ret' = [ret EXCEPT ![w] = "StartFailure"]
    /\ UNCHANGED <<others, config, sl, pid, p, exited, exitedOnce,
                   stdinCloses, events, cvars, procvars, obsvars, op,
                   returned, calls, cancelled>>

\* cmd.Start() fails: the deferred he.c.Terminate() and he.c.Close() of an
\* init exec run, then the deferred exitFromCreatedL(1)
StartProcessFail(w) ==
    /\ pc[w] = "start_cmd"
    /\ IF isInit
       THEN /\ cTerminates' = cTerminates + 1
            /\ cCloses' = cCloses + 1
            /\ cState' = "terminated"
       ELSE UNCHANGED <<cTerminates, cCloses, cState>>
    /\ UNCHANGED cStarts
    /\ exitFromCreatedL(FailStatus)
    /\ ExitedBy("Start")
    /\ pc' = [pc EXCEPT ![w] = AfterExitFromCreatedL]
    /\ ret' = [ret EXCEPT ![w] = "StartFailure"]
    /\ UNCHANGED <<others, config, sl, pid, p, exited, exitedOnce,
                   stdinCloses, events, procvars, obsvars, op, returned,
                   calls, cancelled>>

\* he.io.Close() of exitFromCreatedL returns, he.exited is closed, and the
\* caller (Start, Kill or ForceExit) releases he.sl and returns
ExitFromCreatedReturn(w) ==
    /\ pc[w] \in {"efc_io", "efc_ret"}
    /\ exitFromCreatedLEnd(pc[w])
    /\ sl' = NoLock
    /\ Return(w, op[w].name, ret[w], NoSnap)
    /\ UNCHANGED <<others, config, fields, processDone, processDoneOnce,
                   iovars, events, exitlog, cvars, procvars, obsvars, calls>>

\* ------------------------------------------------------------------- Kill
\* KillCreated that hands the signal to exitFromCreatedL as the exit status
KillCreated_SignalAsStatus(w, signal) ==
    /\ Enter(w)
    /\ sl = NoLock
    /\ state = "Created"
    /\ sl' = w
    /\ exitFromCreatedL(signal)
    /\ ExitedBy("Kill")
    /\ Goto(w, "Kill", signal, AfterExitFromCreatedL, "ok")
    /\ UNCHANGED <<others, config, pid, p, exited, exitedOnce, stdinCloses,
                   events, cvars, procvars, obsvars>>

\* Kill of a Created exec: exitFromCreatedL(1)
KillCreated(w, signal) ==
    /\ Enter(w)
    /\ sl = NoLock
    /\ state = "Created"
    /\ sl' = w
    /\ exitFromCreatedL(FailStatus)
    /\ ExitedBy("Kill")
    /\ Goto(w, "Kill", signal, AfterExitFromCreatedL, "ok")
    /\ UNCHANGED <<others, config, pid, p, exited, exitedOnce, stdinCloses,
                   events, cvars, procvars, obsvars>>

\* Kill of a Running exec with a signal the translator rejects
KillInvalidSignal(w, signal) ==
    /\ Enter(w)
    /\ sl = NoLock
    /\ state = "Running"
    /\ Translate(signal, isWCOW, supported) = "invalid"
    /\ Return(w, "Kill", "FailedPrecondition", NoSnap)
    /\ UNCHANGED <<others, config, sl, fields, latches, iovars, events,
                   exitlog, cvars, procvars, obsvars>>

\* Kill of a Running exec goes into he.p.Process.Signal() or .Kill()
KillRunning(w, signal) ==
    /\ Enter(w)
    /\ sl = NoLock
    /\ state = "Running"
    /\ Translate(signal, isWCOW, supported) # "invalid"
    /\ sl' = w
    /\ Goto(w, "Kill", signal, "kill_deliver", "none")
    /\ UNCHANGED <<others, config, fields, latches, iovars, events, exitlog,
                   cvars, procvars, obsvars>>

\* what Process.Signal() and Process.Kill() may answer
Deliveries ==
    {"error"} \cup (IF procState = "running" THEN {"delivered"}
                    ELSE {"notdelivered"})

\* KillDeliver on the legacy path only: always he.p.Process.Kill()
KillDeliver_Legacy(w) ==
    /\ pc[w] = "kill_deliver"
    /\ procKills' = procKills + 1
    /\ sl' = NoLock
    /\ \E d \in Deliveries :
          Return(w, "Kill",
                 CASE d = "error" -> "DeliveryError"
                   [] d = "notdelivered" -> "NotFound"
                   [] d = "delivered" -> "ok", NoSnap)
    /\ UNCHANGED <<others, config, fields, latches, iovars, events, exitlog,
                   cvars, procState, procCode, procSignals, resizes, obsvars,
                   calls>>

\* he.p.Process.Signal() or .Kill() returns (delivered, err)
KillDeliver(w) ==
    /\ pc[w] = "kill_deliver"
    /\ IF supported /\ Translate(op[w].arg, isWCOW, supported) = "request"
       THEN procSignals' = procSignals + 1 /\ UNCHANGED procKills
       ELSE procKills' = procKills + 1 /\ UNCHANGED procSignals
    /\ sl' = NoLock
    /\ \E d \in Deliveries :
          Return(w, "Kill",
                 CASE d = "error" -> "DeliveryError"
                   [] d = "notdelivered" -> "NotFound"
                   [] d = "delivered" -> "ok", NoSnap)
    /\ UNCHANGED <<others, config, fields, latches, iovars, events, exitlog,
                   cvars, procState, procCode, resizes, obsvars, calls>>

\* KillExited that returns nil, as Kill of a Created exec does
KillExited_Nil(w, signal) ==
    /\ Enter(w)
    /\ sl = NoLock
    /\ state = "Exited"
    /\ Return(w, "Kill", "ok", NoSnap)
    /\ UNCHANGED <<others, config, sl, fields, latches, iovars, events,
                   exitlog, cvars, procvars, obsvars>>

\* KillExited without the case for Exited: the default case of the switch
KillExited_Default(w, signal) ==
    /\ Enter(w)
    /\ sl = NoLock
    /\ state = "Exited"
    /\ Return(w, "Kill", "InvalidState", NoSnap)
    /\ UNCHANGED <<others, config, sl, fields, latches, iovars, events,
                   exitlog, cvars, procvars, obsvars>>

\* Kill of an Exited exec
KillExited(w, signal) ==
    /\ Enter(w)
    /\ sl = NoLock
    /\ state = "Exited"
    /\ Return(w, "Kill", "NotFound", NoSnap)
    /\ UNCHANGED <<others, config, sl, fields, latches, iovars, events,
                   exitlog, cvars, procvars, obsvars>>

\* -------------------------------------------------------------- ForceExit
\* ForceExitCreated that exits with status 1, as Kill of a Created exec does
ForceExitCreated_AsKill(w, status) ==
    /\ Enter(w)
    /\ sl = NoLock
    /\ state = "Created"
    /\ sl' = w
    /\ exitFromCreatedL(FailStatus)
    /\ ExitedBy("ForceExit")
    /\ Goto(w, "ForceExit", status, AfterExitFromCreatedL, "none")
    /\ UNCHANGED <<others, config, pid, p, exited, exitedOnce, stdinCloses,
                   events, cvars, procvars, obsvars>>

\* ForceExit of a Created exec: exitFromCreatedL(status)
ForceExitCreated(w, status) ==
    /\ Enter(w)
    /\ sl = NoLock
    /\ state = "Created"
    /\ sl' = w
    /\ exitFromCreatedL(status)
    /\ ExitedBy("ForceExit")
    /\ Goto(w, "ForceExit", status, AfterExitFromCreatedL, "none")
    /\ UNCHANGED <<others, config, pid, p, exited, exitedOnce, stdinCloses,
                   events, cvars, procvars, obsvars>>

\* ForceExitRunning that moves the exec to Exited itself, as from Created
ForceExitRunning_Direct(w, status) ==
    /\ Enter(w)
    /\ sl = NoLock
    /\ state = "Running"
    /\ sl' = w
    /\ exitFromCreatedL(status)
    /\ ExitedBy("ForceExit")
    /\ Goto(w, "ForceExit", status, AfterExitFromCreatedL, "none")
    /\ UNCHANGED <<others, config, pid, p, exited, exitedOnce, stdinCloses,
                   events, cvars, procvars, obsvars>>

\* ForceExit of a Running exec goes into he.p.Process.Kill()
ForceExitRunning(w, status) ==
    /\ Enter(w)
    /\ sl = NoLock
    /\ state = "Running"
    /\ sl' = w
    /\ Goto(w, "ForceExit", status, "force_kill", "none")
    /\ UNCHANGED <<others, config, fields, latches, iovars, events, exitlog,
                   cvars, procvars, obsvars>>

\* ForceExitKill that records the status of the call as the exit status
ForceExitKill_WritesStatus(w) ==
    /\ pc[w] = "force_kill"
    /\ procKills' = procKills + 1
    /\ exitStatus' = ToUint32(op[w].arg)
    /\ sl' = NoLock
    /\ Return(w, "ForceExit", "none", NoSnap)
    /\ UNCHANGED <<others, config, state, pid, exitedAt, p, latches, iovars,
                   events, exitlog, cvars, procState, procCode, procSignals,
                   resizes, obsvars, calls>>

\* he.p.Process.Kill() of ForceExit returns
ForceExitKill(w) ==
    /\ pc[w] = "force_kill"
    /\ procKills' = procKills + 1
    /\ sl' = NoLock
    /\ Return(w, "ForceExit", "none", NoSnap)
    /\ UNCHANGED <<others, config, fields, latches, iovars, events, exitlog,
                   cvars, procState, procCode, procSignals, resizes, obsvars,
                   calls>>

\* ForceExit of an Exited exec does nothing
ForceExitExited(w, status) ==
    /\ Enter(w)
    /\ sl = NoLock
    /\ state = "Exited"
    /\ Return(w, "ForceExit", "none", NoSnap)
    /\ UNCHANGED <<others, config, sl, fields, latches, iovars, events,
                   exitlog, cvars, procvars, obsvars>>

\* -------------------------------------- ResizePty, CloseIO, Wait, Status
\* ResizePty of an exec that is not Running
ResizePtyInvalidState(w) ==
    /\ Enter(w)
    /\ sl = NoLock
    /\ state # "Running"
    /\ Return(w, "ResizePty", "InvalidState", NoSnap)
    /\ UNCHANGED <<others, config, sl, fields, latches, iovars, events,
                   exitlog, cvars, procvars, obsvars>>

\* ResizePtyNotTerminal without the check of he.io.Terminal()
ResizePtyNotTerminal_Forwards(w) ==
    /\ Enter(w)
    /\ sl = NoLock
    /\ state = "Running"
    /\ ~terminal
    /\ sl' = w
    /\ Goto(w, "ResizePty", 0, "resize_call", "none")
    /\ UNCHANGED <<others, config, fields, latches, iovars, events, exitlog,
                   cvars, procvars, obsvars>>

\* ResizePty of a Running exec whose io is no terminal
ResizePtyNotTerminal(w) ==
    /\ Enter(w)
    /\ sl = NoLock
    /\ state = "Running"
    /\ ~terminal
    /\ Return(w, "ResizePty", "FailedPrecondition", NoSnap)
    /\ UNCHANGED <<others, config, sl, fields, latches, iovars, events,
                   exitlog, cvars, procvars, obsvars>>

\* ResizePty goes into he.p.Process.ResizeConsole()
ResizePtyRunning(w) ==
    /\ Enter(w)
    /\ sl = NoLock
    /\ state = "Running"
    /\ terminal
    /\ sl' = w
    /\ Goto(w, "ResizePty", 0, "resize_call", "none")
    /\ UNCHANGED <<others, config, fields, latches, iovars, events, exitlog,
                   cvars, procvars, obsvars>>

\* he.p.Process.ResizeConsole() returns its error
ResizePtyReturn(w) ==
    /\ pc[w] = "resize_call"
    /\ resizes' = resizes + 1
    /\ sl' = NoLock
    /\ \E r \in {"ok", "ResizeError"} : Return(w, "ResizePty", r, NoSnap)
    /\ UNCHANGED <<others, config, fields, latches, iovars, events, exitlog,
                   cvars, procState, procCode, procKills, procSignals,
                   obsvars, calls>>

\* CloseIO: he.io.CloseStdin(), without he.sl
CloseIO(w) ==
    /\ Enter(w)
    /\ stdinCloses' = stdinCloses + 1
    /\ Return(w, "CloseIO", "ok", NoSnap)
    /\ UNCHANGED <<others, config, sl, fields, latches, ioCloses, events,
                   exitlog, cvars, procvars, obsvars>>

\* Wait is called and blocks in <-he.exited
WaitCall(w) ==
    /\ Enter(w)
    /\ Goto(w, "Wait", 0, "wait", "none")
    /\ UNCHANGED <<others, config, sl, fields, latches, iovars, events,
                   exitlog, cvars, procvars, obsvars>>

\* <-he.exited of Wait returns: the channel is closed
WaitExited(w) ==
    /\ pc[w] = "wait"
    /\ exited
    /\ pc' = [pc EXCEPT ![w] = "wait_status"]
    /\ UNCHANGED <<others, config, sl, fields, latches, iovars, events,
                   exitlog, cvars, procvars, obsvars, op, ret, returned,
                   calls, cancelled>>

\* Wait returns he.Status()
WaitReturn(w) ==
    /\ pc[w] = "wait_status"
    /\ sl = NoLock
    /\ Return(w, "Wait", "ok", StatusOf)
    /\ UNCHANGED <<others, config, sl, fields, latches, iovars, events,
                   exitlog, cvars, procvars, obsvars, calls>>

\* the ctx of a Wait in progress is cancelled; Wait does not select on it
CtxCancel(w) ==
    /\ pc[w] = "wait"
    /\ w \notin cancelled
    /\ cancelled' = cancelled \cup {w}
    /\ UNCHANGED <<others, config, sl, fields, latches, iovars, events,
                   exitlog, cvars, procvars, obsvars, pc, op, ret, returned,
                   calls>>

\* Status
Status(w) ==
    /\ Enter(w)
    /\ sl = NoLock
    /\ Return(w, "Status", "ok", StatusOf)
    /\ UNCHANGED <<others, config, sl, fields, latches, iovars, events,
                   exitlog, cvars, procvars, obsvars>>

\* ------------------------------------------------------------ waitForExit
\* ExitObserverProcessDone that closes he.exited in place of he.processDone
ExitObserverProcessDone_ClosesExited ==
    /\ pcE = "pwait"
    /\ procState = "exited"
    /\ exitedOnce' = TRUE
    /\ exited' = IF exitedOnce THEN exited ELSE TRUE
    /\ code' = procCode
    /\ pcE' = "lock"
    /\ UNCHANGED <<others, config, sl, fields, processDone, processDoneOnce,
                   iovars, events, exitlog, cvars, procvars, pcC, pcCW, cexit,
                   callvars>>

\* he.p.Process.Wait() returns; processDone is closed; ExitCode() is read
ExitObserverProcessDone ==
    /\ pcE = "pwait"
    /\ procState = "exited"
    /\ processDoneOnce' = TRUE
    /\ processDone' = IF processDoneOnce THEN processDone ELSE TRUE
    /\ code' = procCode
    /\ pcE' = "lock"
    /\ UNCHANGED <<others, config, sl, fields, exited, exitedOnce, iovars,
                   events, exitlog, cvars, procvars, pcC, pcCW, cexit,
                   callvars>>

\* ExitObserverWrite that closes he.exited right after the write of state
ExitObserverWrite_Signals ==
    /\ pcE = "lock"
    /\ sl = NoLock
    /\ state' = "Exited"
    /\ exitStatus' = ToUint32(code)
    /\ exitedAt' = ExitTime
    /\ exitedWrites' = exitedWrites + 1
    /\ exitedBy' = "process"
    /\ exitedOnce' = TRUE
    /\ exited' = IF exitedOnce THEN exited ELSE TRUE
    /\ pcE' = "drain"
    /\ UNCHANGED <<others, config, sl, pid, p, processDone, processDoneOnce,
                   iovars, events, cvars, procvars, pcC, pcCW, code, cexit,
                   callvars>>

\* ExitObserverWrite without he.sl.Unlock(): the lock is kept over he.p.Wait()
\* and he.io.Close()
ExitObserverWrite_KeepsLock ==
    /\ pcE = "lock"
    /\ sl = NoLock
    /\ sl' = EObs
    /\ state' = "Exited"
    /\ exitStatus' = ToUint32(code)
    /\ exitedAt' = ExitTime
    /\ exitedWrites' = exitedWrites + 1
    /\ exitedBy' = "process"
    /\ pcE' = "drain"
    /\ UNCHANGED <<others, config, pid, p, latches, iovars, events, cvars,
                   procvars, pcC, pcCW, code, cexit, callvars>>

\* under he.sl: state, exitStatus and exitedAt take the exited values
ExitObserverWrite ==
    /\ pcE = "lock"
    /\ sl = NoLock
    /\ state' = "Exited"
    /\ exitStatus' = ToUint32(code)
    /\ exitedAt' = ExitTime
    /\ exitedWrites' = exitedWrites + 1
    /\ exitedBy' = "process"
    /\ pcE' = "drain"
    /\ UNCHANGED <<others, config, sl, pid, p, latches, iovars, events, cvars,
                   procvars, pcC, pcCW, code, cexit, callvars>>

\* he.p.Wait() returns and he.io.Close() is called
ExitObserverCloseIO ==
    /\ pcE = "drain"
    /\ ioCloses' = ioCloses + 1
    /\ pcE' = "event"
    /\ UNCHANGED <<others, config, sl, fields, latches, stdinCloses, events,
                   exitlog, cvars, procvars, pcC, pcCW, code, cexit,
                   callvars>>

\* ExitObserverPublish without the check for the init exec
ExitObserverPublish_Always ==
    /\ pcE = "event"
    /\ events' = Append(events, ExitEvent)
    /\ pcE' = "signal"
    /\ UNCHANGED <<others, config, sl, fields, latches, iovars, exitlog,
                   cvars, procvars, pcC, pcCW, code, cexit, callvars>>

\* TaskExit is published unless this is the init exec
ExitObserverPublish ==
    /\ pcE = "event"
    /\ events' = IF ~isInit THEN Append(events, ExitEvent) ELSE events
    /\ pcE' = "signal"
    /\ UNCHANGED <<others, config, sl, fields, latches, iovars, exitlog,
                   cvars, procvars, pcC, pcCW, code, cexit, callvars>>

\* he.exitedOnce.Do(close(he.exited))
ExitObserverExited ==
    /\ pcE = "signal"
    /\ exitedOnce' = TRUE
    /\ exited' = IF exitedOnce THEN exited ELSE TRUE
    /\ pcE' = "done"
    /\ UNCHANGED <<others, config, sl, fields, processDone, processDoneOnce,
                   iovars, events, exitlog, cvars, procvars, pcC, pcCW, code,
                   cexit, callvars>>

\* --------------------------------------------------- waitForContainerExit
\* he.c.Wait() returns in the inner goroutine, which closes cexit
ContainerWaitReturn ==
    /\ pcCW = "wait"
    /\ cState = "terminated"
    /\ cexit' = TRUE
    /\ pcCW' = "done"
    /\ UNCHANGED <<others, config, sl, fields, latches, iovars, events,
                   exitlog, cvars, procvars, pcC, pcE, code, callvars>>

\* ContainerObserverProcessDone that kills the process before it returns
ContainerObserverProcessDone_Kills ==
    /\ pcC = "select"
    /\ processDone
    /\ procKills' = procKills + 1
    /\ pcC' = "done"
    /\ UNCHANGED <<others, config, sl, fields, latches, iovars, events,
                   exitlog, cvars, procState, procCode, procSignals, resizes,
                   pcCW, pcE, code, cexit, callvars>>

\* select takes <-he.processDone: nothing to do
ContainerObserverProcessDone ==
    /\ pcC = "select"
    /\ processDone
    /\ pcC' = "done"
    /\ UNCHANGED <<others, config, sl, fields, latches, iovars, events,
                   exitlog, cvars, procvars, pcCW, pcE, code, cexit,
                   callvars>>

\* select takes <-cexit and finds the exec Created: exitFromCreatedL(1)
ContainerObserverCreated ==
    /\ pcC = "select"
    /\ cexit
    /\ sl = NoLock
    /\ state = "Created"
    /\ sl' = CObs
    /\ exitFromCreatedL(FailStatus)
    /\ ExitedBy("container")
    /\ pcC' = AfterExitFromCreatedL
    /\ UNCHANGED <<others, config, pid, p, exited, exitedOnce, stdinCloses,
                   events, cvars, procvars, pcCW, pcE, code, cexit, callvars>>

\* exitFromCreatedL of the container observer returns; he.sl is released
ContainerObserverExitFromCreatedReturn ==
    /\ pcC \in {"efc_io", "efc_ret"}
    /\ exitFromCreatedLEnd(pcC)
    /\ sl' = NoLock
    /\ pcC' = "done"
    /\ UNCHANGED <<others, config, fields, processDone, processDoneOnce,
                   iovars, events, exitlog, cvars, procvars, pcCW, pcE, code,
                   cexit, callvars>>

\* ContainerObserverRunning that moves the exec to Exited itself, as from
\* Created
ContainerObserverRunning_Direct ==
    /\ pcC = "select"
    /\ cexit
    /\ sl = NoLock
    /\ state = "Running"
    /\ sl' = CObs
    /\ exitFromCreatedL(FailStatus)
    /\ ExitedBy("container")
    /\ pcC' = AfterExitFromCreatedL
    /\ UNCHANGED <<others, config, pid, p, exited, exitedOnce, stdinCloses,
                   events, cvars, procvars, pcCW, pcE, code, cexit, callvars>>

\* ContainerObserverRunning that leaves the process of a Running exec alone
ContainerObserverRunning_NoKill ==
    /\ pcC = "select"
    /\ cexit
    /\ sl = NoLock
    /\ state = "Running"
    /\ pcC' = "done"
    /\ UNCHANGED <<others, config, sl, fields, latches, iovars, events,
                   exitlog, cvars, procvars, pcCW, pcE, code, cexit,
                   callvars>>

\* select takes <-cexit and finds the exec Running: into Process.Kill()
ContainerObserverRunning ==
    /\ pcC = "select"
    /\ cexit
    /\ sl = NoLock
    /\ state = "Running"
    /\ sl' = CObs
    /\ pcC' = "kill"
    /\ UNCHANGED <<others, config, fields, latches, iovars, events, exitlog,
                   cvars, procvars, pcCW, pcE, code, cexit, callvars>>

\* he.p.Process.Kill() of the container observer returns
ContainerObserverKill ==
    /\ pcC = "kill"
    /\ procKills' = procKills + 1
    /\ sl' = NoLock
    /\ pcC' = "done"
    /\ UNCHANGED <<others, config, fields, latches, iovars, events, exitlog,
                   cvars, procState, procCode, procSignals, resizes, pcCW,
                   pcE, code, cexit, callvars>>

\* select takes <-cexit and finds the exec Exited
ContainerObserverExited ==
    /\ pcC = "select"
    /\ cexit
    /\ sl = NoLock
    /\ state = "Exited"
    /\ pcC' = "done"
    /\ UNCHANGED <<others, config, sl, fields, latches, iovars, events,
                   exitlog, cvars, procvars, pcCW, pcE, code, cexit,
                   callvars>>

\* ------------------------------------------------------------ environment
\* the guest process terminates with some exit code
ProcessExit ==
    /\ procState = "running"
    /\ procState' = "exited"
    /\ \E c \in ExitCodes : procCode' = c
    /\ UNCHANGED <<others, config, sl, fields, latches, iovars, events,
                   exitlog, cvars, procKills, procSignals, resizes, obsvars,
                   callvars>>

\* the hosting container terminates
ContainerExit ==
    /\ cState \in {"created", "running"}
    /\ cState' = "terminated"
    /\ UNCHANGED <<others, config, sl, fields, latches, iovars, events,
                   exitlog, cTerminates, cCloses, cStarts, procvars, obsvars,
                   callvars>>

\* ---------------------------------------------------------- specification
CallerStep(w) ==
    \/ StartInvalidState(w)
    \/ StartBegin(w)
    \/ StartContainerOK(w)
    \/ StartContainerFail(w)
    \/ StartProcessOK(w)
    \/ StartProcessFail(w)
    \/ ExitFromCreatedReturn(w)
    \/ \E signal \in Signals : KillCreated(w, signal)
    \/ \E signal \in Signals : KillInvalidSignal(w, signal)
    \/ \E signal \in Signals : KillRunning(w, signal)
    \/ KillDeliver(w)
    \/ \E signal \in Signals : KillExited(w, signal)
    \/ \E status \in ForceStatuses : ForceExitCreated(w, status)
    \/ \E status \in ForceStatuses : ForceExitRunning(w, status)
    \/ ForceExitKill(w)
    \/ \E status \in ForceStatuses : ForceExitExited(w, status)
    \/ ResizePtyInvalidState(w)
    \/ ResizePtyNotTerminal(w)
    \/ ResizePtyRunning(w)
    \/ ResizePtyReturn(w)
    \/ CloseIO(w)
    \/ WaitCall(w)
    \/ WaitExited(w)
    \/ WaitReturn(w)
    \/ Status(w)

ExitObserverStep ==
    \/ ExitObserverProcessDone
    \/ ExitObserverWrite
    \/ ExitObserverCloseIO
    \/ ExitObserverPublish
    \/ ExitObserverExited

ContainerObserverStep ==
    \/ ContainerWaitReturn
    \/ ContainerObserverProcessDone
    \/ ContainerObserverCreated
    \/ ContainerObserverExitFromCreatedReturn
    \/ ContainerObserverRunning
    \/ ContainerObserverKill
    \/ ContainerObserverExited

Next ==
    \/ \E w \in Workers : CallerStep(w)
    \/ ExitObserverStep
    \/ ContainerObserverStep
    \/ ProcessExit
    \/ ContainerExit

Spec == Init /\ [][Next]_vars

\* a step of a call in progress
CallerProgress(w) == pc[w] # "idle" /\ CallerStep(w)

\* a step of a goroutine of the exec: everything but the entry of a new
\* call and the termination of the process and of the container
Progress ==
    \/ \E w \in Workers : CallerProgress(w)
    \/ ExitObserverStep
    \/ ContainerObserverStep

\* the scheduler does not stop while some goroutine of the exec can take a
\* step, and the calls into the platform (Process.Kill, Process.Signal,
\* ResizeConsole, io.Close, cmd.Wait) return
FairSpec == Spec /\ WF_vars(Progress)

\* ----------------------------------------------------------------- claims
\* the exec with callers that cancel the ctx they gave to Wait
NextCtx ==
    \/ Next
    \/ \E w \in Workers : CtxCancel(w)

CtxSpec == Init /\ [][NextCtx]_vars

\* the fair scheduler for it; nobody is obliged to cancel or to call
FairCtxSpec == CtxSpec /\ WF_vars(Progress)

\* a process that Process.Kill() was called on terminates
KilledProcessExits == procKills > 0 /\ ProcessExit

\* the fair scheduler, and a killed process terminates
FairKillSpec == FairSpec /\ WF_vars(KilledProcessExits)

\* --------------------------------------------------------- syscallWatcher
\* what a watched call into the platform may store as its result
SyscallResults == {"nil", "error"}

\* syscallWatcher makes the ctx with the timeout and starts watchFunc, then
\* goes into syscallLambda()
SyscallWatcherBegin ==
    /\ swPc = "idle"
    /\ swPc' = "lambda"
    /\ wfPc' = "start"
    /\ UNCHANGED <<ctxErr, warnings, lambdaResult, inTime, notwatch>>

\* syscallLambda() returns; it may also never do so
SyscallLambdaReturn ==
    /\ swPc = "lambda"
    /\ \E r \in SyscallResults : lambdaResult' = r
    /\ inTime' = (ctxErr = "nil")
    /\ swPc' = "log"
    /\ UNCHANGED <<ctxErr, wfPc, warnings, notwatch>>

\* syscallWatcher logs that the call finished
SyscallWatcherFinished ==
    /\ swPc = "log"
    /\ warnings' = Append(warnings, "finished")
    /\ swPc' = "cancel"
    /\ UNCHANGED <<ctxErr, wfPc, lambdaResult, inTime, notwatch>>

\* the deferred cancel() of syscallWatcher: a ctx whose deadline has passed
\* keeps its error
SyscallWatcherCancel ==
    /\ swPc = "cancel"
    /\ ctxErr' = IF ctxErr = "nil" THEN "Canceled" ELSE ctxErr
    /\ swPc' = "done"
    /\ UNCHANGED <<wfPc, warnings, lambdaResult, inTime, notwatch>>

\* the timer of context.WithTimeout fires
DeadlineFires ==
    /\ swPc \notin {"idle", "done"}
    /\ ctxErr = "nil"
    /\ ctxErr' = "DeadlineExceeded"
    /\ UNCHANGED <<swPc, wfPc, warnings, lambdaResult, inTime, notwatch>>

\* watchFunc logs that it started and goes into the select
WatchFuncStart ==
    /\ wfPc = "start"
    /\ warnings' = Append(warnings, "started")
    /\ wfPc' = "select"
    /\ UNCHANGED <<swPc, ctxErr, lambdaResult, inTime, notwatch>>

\* WatchFuncDone that warns of the timeout whatever ctx.Err() is
WatchFuncDone_AlwaysWarns ==
    /\ wfPc = "select"
    /\ ctxErr # "nil"
    /\ warnings' = Append(warnings, "timeout")
    /\ wfPc' = "done"
    /\ UNCHANGED <<swPc, ctxErr, lambdaResult, inTime, notwatch>>

\* <-ctx.Done() of watchFunc: the warning that fits ctx.Err()
WatchFuncDone ==
    /\ wfPc = "select"
    /\ ctxErr # "nil"
    /\ warnings' = Append(warnings, IF ctxErr # "Canceled" THEN "timeout"
                                    ELSE "canceled")
    /\ wfPc' = "done"
    /\ UNCHANGED <<swPc, ctxErr, lambdaResult, inTime, notwatch>>

SyscallWatcherStep ==
    \/ SyscallWatcherFinished
    \/ SyscallWatcherCancel

WatchFuncStep ==
    \/ WatchFuncStart
    \/ WatchFuncDone

WatchNext ==
    \/ SyscallWatcherBegin
    \/ SyscallLambdaReturn
    \/ SyscallWatcherStep
    \/ DeadlineFires
    \/ WatchFuncStep

WatchSpec == Init /\ [][WatchNext]_vars

\* the scheduler runs both goroutines and the timer fires unless it is
\* stopped; the watched call itself may hang for ever
FairWatchSpec ==
    /\ WatchSpec
    /\ WF_vars(SyscallWatcherStep)
    /\ WF_vars(WatchFuncStep)
    /\ WF_vars(DeadlineFires)

\* ------------------------------------------------ RPC handlers of service
\* the handlers whose deferred closure reads fields of resp (State, and so
\* Create, Start, Delete) and those whose closure does not (Kill, and so the
\* rest)
HandlerKinds == {"State", "Kill"}

\* the errors stateInternal and killInternal return
InternalErrors == {"NotFound", "FailedPrecondition"}

\* errdefs.ToGRPC
ToGRPC(e) ==
    CASE e = "nil" -> "nil"
      [] e = "NotFound" -> "grpc.NotFound"
      [] e = "FailedPrecondition" -> "grpc.FailedPrecondition"

\* the handler is called: defer panicRecover(), beginActivity, the deferred
\* closure, and into s.stateInternal() or s.killInternal()
HandlerBegin(kind) ==
    /\ hPc = "idle"
    /\ hKind' = kind
    /\ hPc' = "internal"
    /\ UNCHANGED <<hResp, hErr, hPanic, hPanicked, notrpc>>

\* the internal path returns a response: return r, errdefs.ToGRPC(e)
InternalReturnOK ==
    /\ hPc = "internal"
    /\ hResp' = "resp"
    /\ hErr' = ToGRPC("nil")
    /\ hPc' = "deferred"
    /\ UNCHANGED <<hKind, hPanic, hPanicked, notrpc>>

\* the internal path returns an error and no response
InternalReturnError(e) ==
    /\ hPc = "internal"
    /\ hResp' = "nil"
    /\ hErr' = ToGRPC(e)
    /\ hPc' = "deferred"
    /\ UNCHANGED <<hKind, hPanic, hPanicked, notrpc>>

\* the internal path panics: the return statement is never reached
InternalPanic ==
    /\ hPc = "internal"
    /\ hPanic' = TRUE
    /\ hPanicked' = TRUE
    /\ hPc' = "deferred"
    /\ UNCHANGED <<hKind, hResp, hErr, notrpc>>

\* the deferred closure: State reads resp.Status, which panics on a nil
\* resp; endActivity may panic as well
DeferredEndActivity ==
    /\ hPc = "deferred"
    /\ \E logPanics \in BOOLEAN :
          LET raised == (hKind = "State" /\ hResp = "nil") \/ logPanics IN
          /\ hPanic' = (hPanic \/ raised)
          /\ hPanicked' = (hPanicked \/ raised)
    /\ hPc' = "recover"
    /\ UNCHANGED <<hKind, hResp, hErr, notrpc>>

\* the deferred panicRecover(): it is called without arguments, so it can
\* recover and log the panic but cannot assign resp or err of the handler
PanicRecover ==
    /\ hPc = "recover"
    /\ hPanic' = FALSE
    /\ hPc' = "returned"
    /\ UNCHANGED <<hKind, hResp, hErr, hPanicked, notrpc>>

RpcNext ==
    \/ \E kind \in HandlerKinds : HandlerBegin(kind)
    \/ InternalReturnOK
    \/ \E e \in InternalErrors : InternalReturnError(e)
    \/ InternalPanic
    \/ DeferredEndActivity
    \/ PanicRecover

RpcSpec == Init /\ [][RpcNext]_vars

\* ---------------------------------------------------------- CreateScratch
DefaultScratchSizeGB == 20
ScratchSizes == {DefaultScratchSizeGB, 30}
CacheFiles == {"", "cache.vhdx"}
UtilityVMs == {"nil", "windows", "linux"}

\* the result of `test -d`: found, an *hcsoci.ExitError, or another error
TestDResults == {"nil", "ExitError", "error"}

\* CreateScratch returns on the path r: the deferred function calls
\* RemoveSCSI if the flag removeSCSI is set
CreateScratchReturn(r) ==
    /\ removeCalls' = IF removeSCSI THEN removeCalls + 1 ELSE removeCalls
    /\ csResult' = r
    /\ csPc' = "returned"

\* CreateScratch is called: the checks of the utility VM, and os.Stat of the
\* cache file for a request of the default size
CreateScratchCall(vm, sizeGB, cacheFile, cacheExists) ==
    /\ csPc = "idle"
    /\ useCache' = (cacheFile # "" /\ sizeGB = DefaultScratchSizeGB)
    /\ IF vm # "linux"
       THEN CreateScratchReturn("no_uvm")
       ELSE /\ csPc' = IF cacheFile # "" /\ sizeGB = DefaultScratchSizeGB
                          /\ cacheExists
                       THEN "copy_cache" ELSE "create_vhdx"
            /\ UNCHANGED <<removeCalls, csResult>>
    /\ UNCHANGED <<removeSCSI, attached, testdRuns, notscratch>>

\* copyfile.CopyFile(cacheFile, destFile) returns: served from the cache
CopyFromCache(ok) ==
    /\ csPc = "copy_cache"
    /\ CreateScratchReturn(IF ok THEN "cache" ELSE "cache_copy_failed")
    /\ UNCHANGED <<useCache, removeSCSI, attached, testdRuns, notscratch>>

\* vhd.CreateVhdx returns
CreateVhdx(ok) ==
    /\ csPc = "create_vhdx"
    /\ IF ok
       THEN csPc' = "add_scsi" /\ UNCHANGED <<removeCalls, csResult>>
       ELSE CreateScratchReturn("vhdx_failed")
    /\ UNCHANGED <<useCache, removeSCSI, attached, testdRuns, notscratch>>

\* lcowUVM.AddSCSI returns; on success removeSCSI := true and the cleanup is
\* deferred
AddSCSI(ok) ==
    /\ csPc = "add_scsi"
    /\ IF ok
       THEN /\ removeSCSI' = TRUE
            /\ attached' = TRUE
            /\ csPc' = "test_d"
            /\ UNCHANGED <<removeCalls, csResult>>
       ELSE /\ CreateScratchReturn("add_failed")
            /\ UNCHANGED <<removeSCSI, attached>>
    /\ UNCHANGED <<useCache, testdRuns, notscratch>>

\* one run of `test -d` in the retry loop: break, retry, or return
TestD(r) ==
    /\ csPc = "test_d"
    /\ testdRuns < MaxTestD
    /\ testdRuns' = testdRuns + 1
    /\ CASE r = "nil" -> csPc' = "ls" /\ UNCHANGED <<removeCalls, csResult>>
         [] r = "ExitError" -> UNCHANGED <<csPc, removeCalls, csResult>>
         [] r = "error" -> CreateScratchReturn("test_d_failed")
    /\ UNCHANGED <<useCache, removeSCSI, attached, notscratch>>

\* `ls devicePath` returns
Ls(ok) ==
    /\ csPc = "ls"
    /\ IF ok
       THEN csPc' = "mkfs" /\ UNCHANGED <<removeCalls, csResult>>
       ELSE CreateScratchReturn("ls_failed")
    /\ UNCHANGED <<useCache, removeSCSI, attached, testdRuns, notscratch>>

\* `mkfs.ext4` returns
Mkfs(ok) ==
    /\ csPc = "mkfs"
    /\ IF ok
       THEN csPc' = "hot_remove" /\ UNCHANGED <<removeCalls, csResult>>
       ELSE CreateScratchReturn("mkfs_failed")
    /\ UNCHANGED <<useCache, removeSCSI, attached, testdRuns, notscratch>>

\* HotRemove without removeSCSI = false
HotRemove_KeepsFlag(ok) ==
    /\ csPc = "hot_remove"
    /\ IF ok
       THEN /\ removeCalls' = removeCalls + 1
            /\ csPc' = "seed"
            /\ UNCHANGED csResult
       ELSE /\ removeCalls' = removeCalls + 1 + (IF removeSCSI THEN 1 ELSE 0)
            /\ csResult' = "remove_failed"
            /\ csPc' = "returned"
    /\ UNCHANGED <<useCache, removeSCSI, attached, testdRuns, notscratch>>

\* removeSCSI = false and the explicit lcowUVM.RemoveSCSI; when it fails
\* CreateScratch returns, and the deferred function finds the flag cleared
HotRemove(ok) ==
    /\ csPc = "hot_remove"
    /\ removeSCSI' = FALSE
    /\ removeCalls' = removeCalls + 1
    /\ IF ok
       THEN csPc' = "seed" /\ UNCHANGED csResult
       ELSE csResult' = "remove_failed" /\ csPc' = "returned"
    /\ UNCHANGED <<useCache, attached, testdRuns, notscratch>>

\* the cache is seeded for a request of the default size, and CreateScratch
\* returns
SeedCache(ok) ==
    /\ csPc = "seed"
    /\ CreateScratchReturn(IF useCache /\ ~ok THEN "seed_failed" ELSE "created")
    /\ UNCHANGED <<useCache, removeSCSI, attached, testdRuns, notscratch>>

ScratchNext ==
    \/ \E vm \in UtilityVMs, sizeGB \in ScratchSizes, cacheFile \in CacheFiles,
          cacheExists \in BOOLEAN :
          CreateScratchCall(vm, sizeGB, cacheFile, cacheExists)
    \/ \E ok \in BOOLEAN : CopyFromCache(ok)
    \/ \E ok \in BOOLEAN : CreateVhdx(ok)
    \/ \E ok \in BOOLEAN : AddSCSI(ok)
    \/ \E r \in TestDResults : TestD(r)
    \/ \E ok \in BOOLEAN : Ls(ok)
    \/ \E ok \in BOOLEAN : Mkfs(ok)
    \/ \E ok \in BOOLEAN : HotRemove(ok)
    \/ \E ok \in BOOLEAN : SeedCache(ok)

ScratchSpec == Init /\ [][ScratchNext]_vars

StartTopics == {"TaskStart", "TaskExecStarted"}
StartEvents == {i \in 1..Len(events) : events[i].topic \in StartTopics}
ExitEvents == {i \in 1..Len(events) : events[i].topic = "TaskExit"}

\* an exit path has written state = Exited and has not closed he.exited yet
ExitInProgress ==
    \/ pcE \in {"drain", "event", "signal"}
    \/ pcC = "efc_io"
    \/ \E w \in Workers : pc[w] = "efc_io"

\* C1: under every interleaving he.state is written to Exited at most once
C1_ExitedWrittenAtMostOnce == exitedWrites <= 1

\* C1 witness: the exec has exited while the container terminated and the
\* container observer killed the process
C1_Witness ==
    /\ exitedWrites = 1
    /\ state = "Exited"
    /\ cState = "terminated"
    /\ procKills > 0

\* C2: every step that changes he.state is Created -> Running,
\* Running -> Exited or Created -> Exited
C2_StateMonotonic ==
    [][state' # state =>
         <<state, state'>> \in {<<"Created", "Running">>,
                                <<"Running", "Exited">>,
                                <<"Created", "Exited">>}]_vars

\* C2 witness: an exec that went Created -> Running -> Exited
C2_Witness == state = "Exited" /\ p /\ pid > 0

\* C3 as stated: he.exited is closed iff state = Exited
C3_ExitedIffStateExited == exited <=> (state = "Exited")

\* C3 amended: he.exited closed implies state = Exited, and an Exited exec
\* whose he.exited is still open is on an exit path between the write of
\* state and the close of he.exited
C3_ExitedImpliesStateExited ==
    /\ exited => state = "Exited"
    /\ (state = "Exited" /\ ~exited) => ExitInProgress

\* C3 witness: he.exited is closed at the end of waitForExit
C3_Witness == exited /\ state = "Exited" /\ pcE = "done"

\* C4: when Wait has returned, its snapshot is Stopped with the final
\* exitStatus, io.Close() has been called and a started additional exec has
\* published its TaskExit
C4_WaitReturnsAfterExit ==
    returned.name = "Wait" =>
        /\ state = "Exited"
        /\ returned.snap.status = "StatusStopped"
        /\ returned.snap.exitStatus = exitStatus
        /\ ioCloses >= 1
        /\ (~isInit /\ p) => ExitEvents # {}

\* C4 witness: Wait returned on a started additional exec
C4_Witness == returned.name = "Wait" /\ ~isInit /\ p

\* C5 as stated: exitStatus = 255 iff the exec is still Created
C5_SentinelIffCreated == (exitStatus = NotExitedStatus) <=> (state = "Created")

\* C5 amended: an exec that has not entered Exited has exitStatus = 255
C5_SentinelUntilExited == state # "Exited" => exitStatus = NotExitedStatus

\* C5 witness: a Running exec
C5_Witness == state = "Running" /\ exitStatus = NotExitedStatus

\* C6: io.Close() is called at most once, never before state = Exited, and
\* has been called once he.exited is closed
C6_IOClosedOnce ==
    /\ ioCloses <= 1
    /\ state # "Exited" => ioCloses = 0
    /\ exited => ioCloses = 1

\* C6 witness: a started exec whose exit observer closed io, with the
\* container terminated as well
C6_Witness == exited /\ ioCloses = 1 /\ pcE = "done" /\ cexit

\* C7: at most one start event and at most one exit event, and every exit
\* event has a start event before it
C7_StartBeforeExit ==
    /\ Cardinality(StartEvents) <= 1
    /\ Cardinality(ExitEvents) <= 1
    /\ \A i \in ExitEvents : \E j \in StartEvents : j < i

\* C7 witness: both events were published
C7_Witness == StartEvents # {} /\ ExitEvents # {}

\* C8, the safety half: a TaskExit comes from an additional exec, after its
\* TaskExecStarted and with the same pid, at most once, and with the exit
\* status Wait returns
C8_ExitEventSafe ==
    /\ Cardinality(ExitEvents) <= 1
    /\ \A i \in ExitEvents :
          /\ ~isInit
          /\ \E j \in StartEvents :
                /\ j < i
                /\ events[j].topic = "TaskExecStarted"
                /\ events[j].pid = events[i].pid
          /\ returned.name = "Wait" =>
                returned.snap.exitStatus = events[i].exitStatus

\* C8: TaskExit is published only as above, and a started additional exec
\* whose process has terminated eventually publishes it
C8_TaskExitIffStarted ==
    /\ []C8_ExitEventSafe
    /\ (~isInit /\ procState = "exited") ~> (ExitEvents # {})

\* C8 witness: the TaskExit of an additional exec, and Wait returned
C8_Witness == ExitEvents # {} /\ ~isInit /\ returned.name = "Wait"

\* a step in which some caller enters Start
EntersStart ==
    /\ calls' = calls + 1
    /\ \/ \E w \in Workers : op'[w].name = "Start" /\ op[w].name # "Start"
       \/ pc' = pc /\ returned'.name = "Start"

\* C9: Start on an exec that is not Created returns the invalid state error
\* in the same step and changes nothing of the exec, the container, the
\* process or the events
C9_StartInvalidStateNoMutation ==
    [][(EntersStart /\ state # "Created") =>
          /\ pc' = pc
          /\ returned'.ret = "InvalidState"
          /\ UNCHANGED <<sl, fields, latches, iovars, events, exitlog,
                         cvars, procvars, obsvars>>]_vars

\* C9 witness: Start returned the invalid state error on a Running exec
C9_Witness ==
    /\ returned.name = "Start"
    /\ returned.ret = "InvalidState"
    /\ state = "Running"

\* C10 as stated: after Start returned an error of either kind the exec is
\* Exited with status 1
C10_StartErrorExited ==
    (returned.name = "Start" /\ returned.ret \in {"InvalidState", "StartFailure"})
        => (state = "Exited" /\ exitStatus = FailStatus)

\* C10 amended: after Start returned a start failure the exec is Exited with
\* status 1
C10_StartFailureExited ==
    (returned.name = "Start" /\ returned.ret = "StartFailure")
        => (state = "Exited" /\ exitStatus = FailStatus /\ exited)

\* C10 witness: Start returned a start failure
C10_Witness == returned.name = "Start" /\ returned.ret = "StartFailure"

\* C11: after Start on a Created exec returned the failure of he.c.Start()
\* or of cmd.Start(), the exec is Exited with status 1, he.exited is closed,
\* no event was published, waitForExit was never launched, and the container
\* of an init exec that he.c.Start() had started is terminated and closed
C11_StartFailureCleanup ==
    (returned.name = "Start" /\ returned.ret = "StartFailure") =>
        /\ state = "Exited"
        /\ exitStatus = FailStatus
        /\ exited
        /\ events = <<>>
        /\ pcE = "off"
        /\ (isInit /\ cStarts = 1) =>
              (cTerminates = 1 /\ cCloses = 1 /\ cState = "terminated")

\* C11 witness: Start of an init exec failed in cmd.Start(), after he.c.Start()
C11_Witness ==
    /\ returned.name = "Start"
    /\ returned.ret = "StartFailure"
    /\ isInit
    /\ cStarts = 1

\* caller w enters the method `name` in this step
Enters(w, name) ==
    /\ pc[w] = "idle"
    /\ calls = w - 1
    /\ calls' = calls + 1
    /\ \/ op'[w].name = name
       \/ pc'[w] = "idle" /\ returned'.name = name

\* caller w returns from the method `name` in this step
Returns(w, name) ==
    /\ pc[w] # "idle"
    /\ op[w].name = name
    /\ pc'[w] = "idle"

\* C12: Kill that finds the exec Created makes it Exited with status 1 under
\* he.sl and is going to return nil, whatever the signal; when it returns,
\* he.exited is closed, the exec is Exited with status 1, and neither step
\* signalled or killed a process or published an event
C12_KillCreatedExits ==
    [][\A w \in Workers :
          /\ (Enters(w, "Kill") /\ state = "Created") =>
                /\ state' = "Exited"
                /\ exitStatus' = FailStatus
                /\ ret'[w] = "ok"
                /\ sl' = w
                /\ UNCHANGED <<events, procvars>>
          /\ (Returns(w, "Kill") /\ ~p) =>
                /\ returned'.ret = "ok"
                /\ state' = "Exited"
                /\ exitStatus' = FailStatus
                /\ exited'
                /\ events' = <<>>
                /\ procKills' = 0
                /\ procSignals' = 0]_vars

\* C12 witness: Kill of a Created exec returned nil
C12_Witness ==
    /\ returned.name = "Kill"
    /\ returned.ret = "ok"
    /\ exitedBy = "Kill"
    /\ state = "Exited"
    /\ exited

\* C13 as stated: every Kill of an exec that a Kill made Exited from Created
\* returns nil and sees the exec Exited
C13_EveryKillSucceeds ==
    (returned.name = "Kill" /\ exitedBy = "Kill") =>
        (returned.ret = "ok" /\ state = "Exited")

\* C13 amended: of the Kill calls on an exec that was never started, the one
\* that finds it Created makes it Exited and is going to return nil, every
\* one that finds it Exited returns NotFound at once, and each leaves the
\* exec Exited
C13_OneKillSucceeds ==
    [][\A w \in Workers :
          /\ (Enters(w, "Kill") /\ ~p) =>
                /\ state' = "Exited"
                /\ IF state = "Created"
                   THEN ret'[w] = "ok" /\ exitedBy' = "Kill"
                   ELSE pc'[w] = "idle" /\ returned'.ret = "NotFound"
          /\ (Returns(w, "Kill") /\ ~p) =>
                (returned'.ret = "ok" /\ state' = "Exited")]_vars

\* C13 witness: the second Kill of an exec that the first Kill made Exited
\* from Created has returned
C13_Witness ==
    /\ returned.name = "Kill"
    /\ returned.ret = "NotFound"
    /\ exitedBy = "Kill"
    /\ calls = 2

\* C14: Kill that finds the exec Exited returns NotFound in the same step,
\* whatever the signal and whoever made the exec Exited, and changes neither
\* the fields of the exec nor its latches, its io, the process or the events
C14_KillExitedNotFound ==
    [][\A w \in Workers :
          (Enters(w, "Kill") /\ state = "Exited") =>
              /\ pc'[w] = "idle"
              /\ returned'.ret = "NotFound"
              /\ UNCHANGED <<sl, fields, latches, iovars, events, exitlog,
                             cvars, procvars>>]_vars

\* C14 witness: Kill returned NotFound on an exec whose process had exited
C14_Witness ==
    /\ returned.name = "Kill"
    /\ returned.ret = "NotFound"
    /\ exitedBy = "process"
    /\ exited

\* C15: Kill that finds the exec Running either returns FailedPrecondition
\* at once, delivering nothing, or goes on with a signal the translator
\* accepts; it then calls Process.Signal once for a structured request and
\* Process.Kill once for the hard-terminate directive, and returns nil only
\* if the process was there to take it, NotFound only if it was not, or the
\* error of the delivery; the exec's fields are not changed
C15_KillRunningDispatch ==
    [][\A w \in Workers :
          /\ (Enters(w, "Kill") /\ state = "Running") =>
                /\ UNCHANGED <<fields, latches, procvars, events>>
                /\ \/ pc'[w] = "idle" /\ returned'.ret = "FailedPrecondition"
                   \/ /\ pc'[w] = "kill_deliver"
                      /\ Translate(op'[w].arg, isWCOW, supported) # "invalid"
          /\ (Returns(w, "Kill") /\ pc[w] = "kill_deliver") =>
                LET t == Translate(op[w].arg, isWCOW, supported) IN
                /\ t = "request" =>
                      /\ procSignals' = procSignals + 1
                      /\ procKills' = procKills
                /\ t = "terminate" =>
                      /\ procKills' = procKills + 1
                      /\ procSignals' = procSignals
                /\ returned'.ret \in {"ok", "NotFound", "DeliveryError"}
                /\ returned'.ret = "ok" => procState = "running"
                /\ returned'.ret = "NotFound" => procState # "running"
                /\ UNCHANGED <<fields, latches, events>>]_vars

\* C15 witness: Kill of a Running exec delivered a structured request with
\* Process.Signal and returned nil
C15_Witness ==
    /\ returned.name = "Kill"
    /\ returned.ret = "ok"
    /\ procSignals = 1
    /\ procKills = 0

\* C16: ResizePty that finds the exec not Running, or its io not a terminal,
\* returns FailedPrecondition in the same step and changes nothing; otherwise
\* it goes into ResizeConsole under he.sl; and ResizeConsole is only ever
\* called, once per ResizePty, on a Running exec whose io is a terminal
C16_ResizePtyPrecondition ==
    [][/\ \A w \in Workers :
             Enters(w, "ResizePty") =>
                 IF state = "Running" /\ terminal
                 THEN /\ pc'[w] = "resize_call"
                      /\ sl' = w
                      /\ UNCHANGED <<fields, procvars>>
                 ELSE /\ pc'[w] = "idle"
                      /\ returned'.ret \in FailedPreconditionErrors
                      /\ UNCHANGED <<sl, fields, latches, iovars, events,
                                     exitlog, cvars, procvars>>
       /\ resizes' # resizes =>
             /\ resizes' = resizes + 1
             /\ state = "Running" /\ state' = "Running"
             /\ terminal
             /\ \E w \in Workers : Returns(w, "ResizePty")]_vars

\* C16 witness: ResizePty returned FailedPrecondition on a Running exec
\* without a terminal
C16_Witness ==
    /\ returned.name = "ResizePty"
    /\ returned.ret = "FailedPrecondition"
    /\ state = "Running"
    /\ ~terminal
    /\ resizes = 0

\* C17: a Wait whose ctx is cancelled while it is blocked on he.exited stops
\* waiting and returns
C17_CancelledWaitReturns ==
    \A w \in Workers :
        (pc[w] = "wait" /\ w \in cancelled) ~> (pc[w] # "wait")

\* C18 as stated: an exec that ForceExit made Exited from Created is in the
\* state Kill from Created produces: status 1, both latches closed, io closed
\* once, no event
C18_ForceExitAsKill ==
    (exitedBy = "ForceExit" /\ exited) =>
        /\ state = "Exited"
        /\ exitStatus = FailStatus
        /\ processDone
        /\ ioCloses = 1
        /\ events = <<>>

\* C18 amended: ForceExit(status) that finds the exec Created makes it Exited
\* with exit status `status` under he.sl; when it returns, both latches are
\* closed, io was closed once, and no event was published and no process
\* killed
C18_ForceExitCreatedStatus ==
    [][\A w \in Workers :
          /\ (Enters(w, "ForceExit") /\ state = "Created") =>
                /\ state' = "Exited"
                /\ exitStatus' = ToUint32(op'[w].arg)
                /\ processDone'
                /\ ioCloses' = ioCloses + 1
                /\ sl' = w
                /\ UNCHANGED <<events, procvars>>
          /\ (Returns(w, "ForceExit") /\ ~p) =>
                /\ state' = "Exited"
                /\ exitStatus' = ToUint32(op[w].arg)
                /\ processDone' /\ exited'
                /\ ioCloses' = 1
                /\ events' = <<>>
                /\ procKills' = 0]_vars

\* C18 witness: ForceExit(255) of a Created exec has returned
C18_Witness ==
    /\ returned.name = "ForceExit"
    /\ exitedBy = "ForceExit"
    /\ exitStatus = 255
    /\ exited

C20_ContainerNeverTornDown == cTerminates = 0 /\ cCloses = 0

\* C20 amended: he.c.Terminate() and he.c.Close() are called at most once,
\* together, and only by the Start of an init exec that failed in cmd.Start()
\* after he.c.Start() had started the container
C20_ContainerTornDownByFailedStart ==
    /\ cTerminates = cCloses
    /\ cTerminates <= 1
    /\ cTerminates = 1 =>
          /\ isInit
          /\ cStarts = 1
          /\ exitedBy = "Start"
          /\ state = "Exited"
          /\ ~p

\* C20 witness: the container was terminated and closed, and the Start that
\* did it has returned
C20_Witness ==
    /\ cTerminates = 1
    /\ cCloses = 1
    /\ cState = "terminated"
    /\ exited

\* where a caller is inside a call into the platform or into he.io.Close()
InPlatformCall == {"start_c", "start_cmd", "kill_deliver", "force_kill",
                   "resize_call", "efc_io"}

\* C21 as stated: nobody holds he.sl while inside he.c.Start(), cmd.Start(),
\* Process.Wait(), Process.Signal() or Process.Kill(), or he.io.Close()
C21_NoLockAcrossBlocking ==
    /\ \A w \in Workers : pc[w] \in InPlatformCall => sl # w
    /\ pcC \in {"kill", "efc_io"} => sl # CObs
    /\ pcE \in {"pwait", "drain"} => sl # EObs

\* C21 amended: a caller holds he.sl exactly while it is inside he.c.Start(),
\* cmd.Start(), Process.Signal() or Process.Kill(), ResizeConsole() or
\* exitFromCreatedL with its he.io.Close(), and the container observer
\* exactly while in Process.Kill() or exitFromCreatedL; waitForExit holds it
\* at none of its positions (Process.Wait(), he.p.Wait(), he.io.Close()),
\* and a caller blocked in Wait does not hold it
C21_LockHeldOnlyInMethods ==
    /\ \A w \in Workers : sl = w <=> pc[w] \in InPlatformCall \cup {"efc_ret"}
    /\ sl = CObs <=> pcC \in {"kill", "efc_io", "efc_ret"}
    /\ sl # EObs
    /\ \A w \in Workers : pc[w] \in {"wait", "wait_status"} => sl # w

\* C21 witness: Kill holds he.sl inside the delivery of the signal while
\* waitForExit is inside Process.Wait() without it
C21_Witness ==
    /\ \E w \in Workers : sl = w /\ pc[w] = "kill_deliver"
    /\ pcE = "pwait"

\* C22: once he.exited is closed, waitForContainerExit, the goroutine in
\* he.c.Wait() that it started, and waitForExit (if it was started) all end
C22_GoroutinesEndWithExited ==
    exited ~> (pcC = "done" /\ pcCW = "done" /\ pcE \in {"off", "done"})

\* the warning m was logged
Warned(m) == \E i \in 1..Len(warnings) : warnings[i] = m

\* C23 as stated: after a call that returned before the deadline fired, the
\* warning of the timeout is never logged
C23_NoWarningForCallInTime == inTime => ~Warned("timeout")

\* C23 amended: watchFunc warns of the timeout only if the deadline fired
\* before the deferred cancel(), and of the cancellation only if cancel()
\* came first; when it has ended it has logged the one that fits; its steps
\* change nothing of the caller or the ctx, the result is only written by
\* the return of syscallLambda; and once the call is under way watchFunc
\* ends, whether the call returns or not
C23_WatcherObservesOnly ==
    /\ [](Warned("timeout") => ctxErr = "DeadlineExceeded")
    /\ [](Warned("canceled") => ctxErr = "Canceled")
    /\ [](wfPc = "done" =>
             (Warned("timeout") <=> ctxErr = "DeadlineExceeded"))
    /\ [][(wfPc # "off" /\ wfPc' # wfPc) =>
             UNCHANGED <<swPc, lambdaResult, ctxErr>>]_vars
    /\ [][lambdaResult' # lambdaResult =>
             (swPc = "lambda" /\ swPc' = "log")]_vars
    /\ (swPc = "lambda") ~> (wfPc = "done")

\* C23 witness: the call hangs, the deadline fired and watchFunc warned of
\* the timeout and ended
C23_Witness ==
    /\ swPc = "lambda"
    /\ wfPc = "done"
    /\ Warned("timeout")

\* C24: a handler in which a panic was raised, on its internal path or in
\* its deferred closure, returns the Unknown error, and the panic does not
\* leave the handler
C24_PanicReturnsUnknown ==
    (hPc = "returned" /\ hPanicked) =>
        /\ ~hPanic
        /\ hErr = "grpc.Unknown"
        /\ ~(hResp = "nil" /\ hErr = "nil")

\* the fields of the exec that Status() reports
Reported == <<state, pid, exitStatus, exitedAt>>

\* C25: while the exec is Running, a step changes state, pid, exitStatus or
\* exitedAt only if it is the write of waitForExit, taken after the process
\* terminated and he.processDone was closed; so the steps of Kill, ForceExit,
\* ResizePty, CloseIO and Status leave them as they are, Kill and ForceExit
\* return with the exec still Running, and a step of the container observer
\* changes nothing of the exec and at most adds one Process.Kill()
C25_RunningFrame ==
    [][state = "Running" =>
          /\ Reported' # Reported =>
                /\ pcE = "lock" /\ pcE' = "drain"
                /\ procState = "exited" /\ processDone
                /\ state' = "Exited"
          /\ \A w \in Workers :
                pc'[w] # pc[w] => Reported' = Reported
          /\ \A w \in Workers :
                Returns(w, "Kill") \/ Returns(w, "ForceExit") =>
                    state' = "Running"
          /\ pcC' # pcC =>
                /\ fields' = fields /\ latches' = latches
                /\ events' = events /\ iovars' = iovars
                /\ procState' = procState /\ procSignals' = procSignals
                /\ procKills' \in {procKills, procKills + 1}
    ]_vars

\* C25 witness: ForceExit returned and the container observer ran on a
\* Running exec; both killed the process, which has not terminated, and the
\* exec is Running with its pid and without an exit status
C25_Witness ==
    /\ state = "Running"
    /\ returned.name = "ForceExit"
    /\ pcC = "done"
    /\ procKills = 2
    /\ procState = "running"
    /\ pid \in Pids /\ exitStatus = NotExitedStatus /\ exitedAt = 0

\* he.processDone is closed at most once, and before state becomes Exited
ProcessDoneOnceAndFirst ==
    /\ [](state = "Exited" => processDone)
    /\ [][processDone' # processDone =>
             ~processDone /\ ~processDoneOnce /\ processDoneOnce']_vars

\* C26 as stated: he.processDone is closed at most once and before state
\* becomes Exited, and a select of the container observer that finds
\* he.processDone closed returns with no action: no Process.Kill(), no lock,
\* no change of the exec
C26_ObserverIdleAfterProcessDone ==
    /\ ProcessDoneOnceAndFirst
    /\ [][processDone /\ pcC = "select" /\ pcC' # pcC =>
             /\ pcC' = "done"
             /\ sl' = sl /\ fields' = fields
             /\ procKills' = procKills]_vars

\* C26 amended: he.processDone is closed at most once and before state
\* becomes Exited; once it is closed no step of the container observer
\* changes the exec (it closes he.exited only to end its own
\* exitFromCreatedL), and the observer returns with no action when
\* the container has not terminated; when cexit is closed as well, select
\* may take <-cexit, and then the observer calls Process.Kill() only on an
\* exec that is still Running and whose process has already terminated
C26_ObserverAfterProcessDone ==
    /\ ProcessDoneOnceAndFirst
    /\ [][processDone /\ pcC' # pcC =>
             /\ fields' = fields /\ processDone' = processDone
             /\ exited' # exited => pcC = "efc_io"
             /\ procKills' # procKills =>
                   cexit /\ state = "Running" /\ procState = "exited"]_vars
    /\ [][processDone /\ pcC = "select" /\ ~cexit /\ pcC' # pcC =>
             /\ pcC' = "done"
             /\ sl' = sl
             /\ procKills' = procKills]_vars

\* C26 witness: the process terminated, waitForExit closed he.processDone
\* and made the exec Exited, the container terminated as well, and the
\* container observer returned without a Process.Kill()
C26_Witness ==
    /\ processDone
    /\ exitedBy = "process"
    /\ cState = "terminated" /\ cexit
    /\ pcC = "done"
    /\ procKills = 0

\* the positions of a caller inside a call on he.p
UsesProcess == {"kill_deliver", "force_kill", "resize_call"}

\* C27: a Running exec has he.p set and the pid that its start event
\* carries; pid is 0 as long as the exec is Created and as long as he.p is
\* nil, it is written only by the step of Start that makes the exec Running,
\* and every step of Kill, ForceExit, ResizePty, waitForContainerExit and
\* waitForExit that calls he.p finds it set
C27_RunningHasProcess ==
    /\ [](state = "Running" =>
            /\ p /\ pid \in Pids
            /\ \E i \in 1..Len(events) :
                  /\ events[i].topic \in {"TaskStart", "TaskExecStarted"}
                  /\ events[i].pid = pid)
    /\ [](state = "Created" \/ ~p => pid = 0)
    /\ [][pid' # pid =>
             /\ state = "Created" /\ pid = 0 /\ state' = "Running" /\ p'
             /\ \E w \in Workers : Returns(w, "Start")]_vars
    /\ [][p => p']_vars
    /\ [](\A w \in Workers : pc[w] \in UsesProcess => p)
    /\ [](pcC = "kill" => p)
    /\ [](pcE \notin {"off", "done"} => p)

\* C27 witness: the container observer is inside he.p.Process.Kill() of a
\* Running exec, whose handle is set and whose pid is the one of its start
\* event
C27_Witness ==
    /\ state = "Running"
    /\ pcC = "kill"
    /\ p /\ pid \in Pids
    /\ events # <<>> /\ events[1].pid = pid

\* the return paths of CreateScratch after a successful AddSCSI
AttachedPaths ==
    {"test_d_failed", "ls_failed", "mkfs_failed", "remove_failed",
     "seed_failed", "created"}

\* C28: when CreateScratch has returned, RemoveSCSI was called exactly once
\* if AddSCSI had succeeded - whether the retry loop, ls, mkfs, the explicit
\* hot-remove or the seeding of the cache failed, or nothing did - and not
\* at all on the other paths (no utility VM, served from the cache, failure
\* of CreateVhdx or AddSCSI); it is never called twice or without a
\* successful AddSCSI
C28_RemoveSCSIExactlyOnce ==
    /\ removeCalls <= 1
    /\ removeCalls > 0 => attached
    /\ csPc = "returned" =>
          /\ attached <=> csResult \in AttachedPaths
          /\ removeCalls = IF attached THEN 1 ELSE 0
          /\ csResult \in {"cache", "cache_copy_failed", "add_failed"} =>
                removeCalls = 0

\* C28 witness: the explicit hot-remove failed after a retry of `test -d`,
\* and CreateScratch returned with the one call of RemoveSCSI
C28_Witness ==
    /\ csPc = "returned"
    /\ csResult = "remove_failed"
    /\ testdRuns = 2
    /\ removeCalls = 1

====
